---- MODULE Spec2Model ----
(***************************************************************************)
(* One script pass of src/app.py (a Streamlit dashboard): the prepared     *)
(* dataset df, the sidebar's widget values, the filter pipeline that       *)
(* rebinds the view `filtered`, the KPI block, the charts block with its   *)
(* grouped bar, and the export block.  A pass ends at the end of the       *)
(* script or at st.stop(); the next interaction reruns the script.         *)
(*                                                                         *)
(* A cell is an optional value: <<v>> holds v, <<>> is pandas' missing     *)
(* value (NaN, None, NaT).  A text is a sequence of characters.            *)
(***************************************************************************)
EXTENDS Integers, Sequences, FiniteSets

VARIABLES df, filtered, pc, search, cat_selections, num_ranges, date_range,
          kpi, warning, agg, summary, sum_agg, summary_df, csv_bytes,
          series, is_datetime

vars == <<df, filtered, pc, search, cat_selections, num_ranges, date_range,
          kpi, warning, agg, summary, sum_agg, summary_df, csv_bytes,
          series, is_datetime>>

widgets == <<search, cat_selections, num_ranges, date_range>>

outputs == <<kpi, warning, agg, summary, sum_agg, summary_df, csv_bytes>>

\* One column of the file as loaded, and whether line 50 found it temporal.
loader == <<series, is_datetime>>

\* ---------------------------------------------------------------- bounds
MaxRows == 3
PassRows == 2
MaxRuns == 3

\* ----------------------------------------------------------------- cells
NA == <<>>

Some(v) == <<v>>

IsNa(cell) == cell = NA

Val(cell) == cell[1]

Range(s) == {s[i] : i \in 1..Len(s)}

\* The columns of the dataset after lines 45-57: one text column, one numeric
\* column, one column of dates.
cat_cols == <<"cat">>

num_cols == <<"num">>

datetime_cols == <<"when">>

Columns == <<"cat", "num", "when">>

TextValues == {<<"a">>, <<"B">>}

NumValues == {1, 2}

DateValues == {1}

Rows == [cat : {NA} \cup {Some(t) : t \in TextValues},
         num : {NA} \cup {Some(n) : n \in NumValues},
         when : {NA} \cup {Some(d) : d \in DateValues}]

\* A text column and a date column hold at least one value each: a column
\* with no value at all is read as float64, and is never inferred temporal.
Datasets(maxrows) == {d \in UNION {[1..n -> Rows] : n \in 1..maxrows} :
                         /\ \E i \in 1..Len(d) : ~IsNa(d[i].cat)
                         /\ \E i \in 1..Len(d) : ~IsNa(d[i].when)}

\* ------------------------------------------------------- string forms
\* The dtype a column has after the load: a numeric column with a missing
\* value is float64, one without is int64.
DType(data, c) ==
  IF c = "cat" THEN "object"
  ELSE IF c = "when" THEN "datetime64"
  ELSE IF \E i \in 1..Len(data) : IsNa(data[i][c]) THEN "float64" ELSE "int64"

Digit(n) == <<"0", "1", "2", "3", "4", "5", "6", "7", "8", "9">>[n + 1]

\* astype(str) of one cell: the missing value becomes the text "nan" ("NaT"
\* in a datetime column), a float gets its ".0", a date (day d of January
\* 2020, at midnight) prints as 2020-01-0d.
AsStr(cell, dtype) ==
  IF dtype = "datetime64"
  THEN IF IsNa(cell) THEN <<"N", "a", "T">>
       ELSE <<"2", "0", "2", "0", "-", "0", "1", "-", "0", Digit(Val(cell))>>
  ELSE IF IsNa(cell) THEN <<"n", "a", "n">>
  ELSE IF dtype = "object" THEN Val(cell)
  ELSE IF dtype = "float64" THEN <<Digit(Val(cell)), ".", "0">>
  ELSE <<Digit(Val(cell))>>

Lower(ch) ==
  CASE ch = "A" -> "a"
    [] ch = "B" -> "b"
    [] ch = "N" -> "n"
    [] ch = "T" -> "t"
    [] OTHER -> ch

IsSpace(ch) == ch = " "

RECURSIVE LStrip(_)
LStrip(s) == IF s # <<>> /\ IsSpace(Head(s)) THEN LStrip(Tail(s)) ELSE s

RECURSIVE RStrip(_)
RStrip(s) ==
  IF s # <<>> /\ IsSpace(s[Len(s)]) THEN RStrip(SubSeq(s, 1, Len(s) - 1)) ELSE s

Strip(s) == RStrip(LStrip(s))

\* Series.str.contains(pat, case=False, na=False): pat is a regular
\* expression (regex=True is the default) searched anywhere in the text; of
\* the metacharacters only "." (any character) is in the alphabet.
MatchAt(pat, text, i) ==
  \A j \in 1..Len(pat) : pat[j] = "." \/ Lower(pat[j]) = Lower(text[i + j - 1])

StrContains(pat, text) ==
  \E i \in 1..(Len(text) - Len(pat) + 1) : MatchAt(pat, text, i)

\* ------------------------------------------------------- filter steps
\* Lines 93-94: the options of the multiselect of column c.
CatOptions(view, c) ==
  {AsStr(view[i][c], "object") : i \in {k \in 1..Len(view) : ~IsNa(view[k][c])}}

\* Lines 96-97.
CatStep(view, c, selected) ==
  IF selected # {}
  THEN SelectSeq(view, LAMBDA row : AsStr(row[c], "object") \in selected)
  ELSE view

RECURSIVE CatLoop(_, _, _)
CatLoop(view, cols, sel) ==
  IF cols = <<>> THEN view
  ELSE CatLoop(CatStep(view, Head(cols), sel[Head(cols)]), Tail(cols), sel)

\* Every selection is among the options offered when its multiselect is drawn.
RECURSIVE CatOffered(_, _, _)
CatOffered(view, cols, sel) ==
  IF cols = <<>> THEN TRUE
  ELSE /\ sel[Head(cols)] \subseteq CatOptions(view, Head(cols))
       /\ CatOffered(CatStep(view, Head(cols), sel[Head(cols)]), Tail(cols), sel)

\* Line 102: filtered[c].dropna(), as the set of its values.
NonMissing(view, c) == {Val(view[i][c]) : i \in {k \in 1..Len(view) : ~IsNa(view[k][c])}}

Min(S) == CHOOSE x \in S : \A y \in S : x <= y

Max(S) == CHOOSE x \in S : \A y \in S : x >= y

\* Line 111: a comparison with a missing value is False.
InRange(cell, r) == ~IsNa(cell) /\ Val(cell) >= r[1] /\ Val(cell) <= r[2]

\* The test mn == mx inverted.
NumCaseInverted(view, c) ==
  IF NonMissing(view, c) = {} THEN "none"
  ELSE IF Min(NonMissing(view, c)) # Max(NonMissing(view, c)) THEN "fixed"
  ELSE "slider"

\* Lines 102-111 for one column: "none" (no value: continue), "fixed"
\* (mn == mx: the range is recorded, no slider, no filter) or "slider".
NumCase(view, c) ==
  IF NonMissing(view, c) = {} THEN "none"
  ELSE IF Min(NonMissing(view, c)) = Max(NonMissing(view, c)) THEN "fixed"
  ELSE "slider"

NumStep(view, c, r) ==
  IF NumCase(view, c) = "slider"
  THEN SelectSeq(view, LAMBDA row : InRange(row[c], r))
  ELSE view

\* The ranges a slider over [mn, mx] can return.
SliderValues(mn, mx) == {r \in (mn..mx) \X (mn..mx) : r[1] <= r[2]}

\* num_ranges after the loop holds a range for every column that has a value.
RECURSIVE NumLoop(_, _, _)
NumLoop(view, cols, ranges) ==
  IF cols = <<>> THEN view
  ELSE IF NumCase(view, Head(cols)) = "none" THEN NumLoop(view, Tail(cols), ranges)
  ELSE NumLoop(NumStep(view, Head(cols), ranges[Head(cols)]), Tail(cols), ranges)

RECURSIVE NumRecorded(_, _)
NumRecorded(view, cols) ==
  IF cols = <<>> THEN {}
  ELSE IF NumCase(view, Head(cols)) = "none" THEN NumRecorded(view, Tail(cols))
  ELSE {Head(cols)} \cup NumRecorded(view, Tail(cols))

\* Lines 115-116: the date_input is drawn when the column holds a date.
DateDrawn(view, c) == NonMissing(view, c) # {}

\* What the date_input can return: one date (the second not picked yet) or
\* a pair start <= end within [dmin, dmax].
DatePicks(dmin, dmax) ==
  {<<d>> : d \in dmin..dmax} \cup {p \in (dmin..dmax) \X (dmin..dmax) : p[1] <= p[2]}

\* Lines 114-127 with the date_input's value fixed, on dates at day
\* resolution: the range is [start 00:00:00, end 23:59:59]; no filter
\* without a date column, without a date in it, or without a pair picked.
DateStep(view, c, range) ==
  IF c # "(none)" /\ DateDrawn(view, c) /\ Len(range) = 2
  THEN SelectSeq(view, LAMBDA row : InRange(row[c], range))
  ELSE view

\* Lines 130-132: the row mask of the search.
SearchHit(row, data, term) ==
  \E c \in Range(Columns) : StrContains(term, AsStr(row[c], DType(data, c)))

\* The mask applied to the dataset instead of the view.
SearchStepOnData(view, data, term) ==
  IF term # <<>> THEN SelectSeq(data, LAMBDA row : SearchHit(row, data, term)) ELSE view

\* Lines 129-133.
SearchStep(view, data, term) ==
  IF term # <<>> THEN SelectSeq(view, LAMBDA row : SearchHit(row, data, term)) ELSE view

\* ----------------------------------------------------- KPIs and tables
\* Line 136.
MissingTotal(view) ==
  Cardinality({<<i, c>> \in (1..Len(view)) \X Range(Columns) : IsNa(view[i][c])})

\* Series.dropna() as a sequence of values.
RECURSIVE DropNa(_, _)
DropNa(view, c) ==
  IF view = <<>> THEN <<>>
  ELSE IF IsNa(Head(view)[c]) THEN DropNa(Tail(view), c)
  ELSE <<Val(Head(view)[c])>> \o DropNa(Tail(view), c)

RECURSIVE SeqSum(_)
SeqSum(s) == IF s = <<>> THEN 0 ELSE Head(s) + SeqSum(Tail(s))

RECURSIVE Insert(_, _)
Insert(x, s) ==
  IF s = <<>> THEN <<x>>
  ELSE IF x <= Head(s) THEN <<x>> \o s
  ELSE <<Head(s)>> \o Insert(x, Tail(s))

RECURSIVE Sorted(_)
Sorted(s) == IF s = <<>> THEN <<>> ELSE Insert(Head(s), Sorted(Tail(s)))

\* A quotient num/den, kept as the pair.
Ratio(num, den) == [num |-> num, den |-> den]

Mean(s) == Ratio(SeqSum(s), Len(s))

Median(s) ==
  LET t == Sorted(s)
      n == Len(t)
  IN  IF n % 2 = 1 THEN Ratio(t[(n + 1) \div 2], 1)
      ELSE Ratio(t[n \div 2] + t[n \div 2 + 1], 2)

Placeholders == [shown |-> FALSE]

\* The statistics without the test len(s) == 0.
KpiStatsUnguarded(view, metric_col) ==
  LET s == DropNa(view, metric_col)
  IN  [shown |-> TRUE, sum |-> SeqSum(s),
       avg |-> IF Len(s) = 0 THEN NA ELSE Some(Mean(s)),
       median |-> IF Len(s) = 0 THEN NA ELSE Some(Median(s)),
       min |-> IF Len(s) = 0 THEN NA ELSE Some(Min(Range(s))),
       max |-> IF Len(s) = 0 THEN NA ELSE Some(Max(Range(s)))]

\* Lines 148-164 (the standard deviation, a real number, is left out).
KpiStats(view, metric_col) ==
  LET s == DropNa(view, metric_col)
  IN  IF Len(s) = 0 THEN Placeholders
      ELSE [shown |-> TRUE, sum |-> SeqSum(s), avg |-> Mean(s), median |-> Median(s),
            min |-> Min(Range(s)), max |-> Max(Range(s))]

CodePoint(ch) ==
  CASE ch = "B" -> 66
    [] ch = "a" -> 97
    [] OTHER -> 0

RECURSIVE TextLess(_, _)
TextLess(s, t) ==
  IF t = <<>> THEN FALSE
  ELSE IF s = <<>> THEN TRUE
  ELSE IF CodePoint(Head(s)) # CodePoint(Head(t)) THEN CodePoint(Head(s)) < CodePoint(Head(t))
  ELSE TextLess(Tail(s), Tail(t))

\* The group keys of groupby(c, dropna=False): every distinct value once, in
\* sorted order, the missing value last.
RECURSIVE SortedTexts(_)
SortedTexts(S) ==
  IF S = {} THEN <<>>
  ELSE LET m == CHOOSE x \in S : \A y \in S \ {x} : TextLess(x, y)
       IN  <<m>> \o SortedTexts(S \ {m})

\* groupby with its default dropna=True.
GroupKeysDropNa(view, c) ==
  LET present == {Val(view[i][c]) : i \in {k \in 1..Len(view) : ~IsNa(view[k][c])}}
      keys == SortedTexts(present)
  IN  [i \in 1..Len(keys) |-> Some(keys[i])]

GroupKeys(view, c) ==
  LET present == {Val(view[i][c]) : i \in {k \in 1..Len(view) : ~IsNa(view[k][c])}}
      keys == SortedTexts(present)
  IN  [i \in 1..Len(keys) |-> Some(keys[i])]
        \o (IF \E i \in 1..Len(view) : IsNa(view[i][c]) THEN <<NA>> ELSE <<>>)

Group(view, c, key) == SelectSeq(view, LAMBDA row : row[c] = key)

\* One reducer over the metric of one group: size() counts rows; sum, mean and
\* median skip missing values, and mean and median of no value are missing.
Reduce(rows, metric_col, how) ==
  LET s == DropNa(rows, metric_col)
  IN  CASE how = "count" -> Len(rows)
        [] how = "sum" -> SeqSum(s)
        [] how = "mean" -> IF Len(s) = 0 THEN NA ELSE Some(Mean(s))
        [] how = "median" -> IF Len(s) = 0 THEN NA ELSE Some(Median(s))

\* Lines 195-199 and 264-267.
GroupAgg(view, group_col, metric_col, how) ==
  LET keys == GroupKeys(view, group_col)
  IN  [i \in 1..Len(keys) |->
         [key |-> keys[i], value |-> Reduce(Group(view, group_col, keys[i]), metric_col, how)]]

\* Line 255: to_csv(index=False), as its lines, each a sequence of fields; a
\* missing value is written as the empty field.
CsvField(cell, dtype) == IF IsNa(cell) THEN <<>> ELSE AsStr(cell, dtype)

ToCsv(view, data) ==
  <<Columns>> \o
  [i \in 1..Len(view) |->
     [j \in 1..Len(Columns) |-> CsvField(view[i][Columns[j]], DType(data, Columns[j]))]]

\* ---------------------------------------------------- the date columns
\* A column of the loaded file: its dtype and its cells.  An object column
\* holds texts, of which some parse as dates.
DateTexts == {"2020-01-01", "2020-01-02"}

OtherTexts == {"n/a"}

ParsesAsDate(text) == text \in DateTexts

DateOf(text) == IF text = "2020-01-01" THEN 1 ELSE 2

\* Line 22 and line 31 on one cell: errors="coerce" turns a text that does not
\* parse, like a missing value, into NaT.
ToDatetimeCell(cell) ==
  IF IsNa(cell) \/ ~ParsesAsDate(Val(cell)) THEN NA ELSE Some(DateOf(Val(cell)))

\* Line 21-22.
to_datetime_safe(cells) == [i \in 1..Len(cells) |-> ToDatetimeCell(cells[i])]

SampleSize == 50

MinParsedPercent == 60

\* s.dropna(): the cells that hold a value, in their order.
DropNaCells(cells) == SelectSeq(cells, LAMBDA cell : ~IsNa(cell))

FirstN(s, n) == SubSeq(s, 1, IF Len(s) < n THEN Len(s) ELSE n)

NotNaCount(cells) == Cardinality({i \in 1..Len(cells) : ~IsNa(cells[i])})

\* The sample without head(50).
SampleAll(cells) == DropNaCells(cells)

\* Line 28.
Sample(cells) == FirstN(DropNaCells(cells), SampleSize)

\* Lines 24-33; parsed.notna().mean() >= 0.6 in whole numbers.
is_datetime_col(s) ==
  IF s.dtype = "datetime64" THEN TRUE
  ELSE IF s.dtype = "object"
  THEN LET sample == Sample(s.cells)
           parsed == to_datetime_safe(sample)
       IN  IF Len(sample) = 0 THEN FALSE
           ELSE 100 * NotNaCount(parsed) >= MinParsedPercent * Len(sample)
  ELSE FALSE

Rep(cell, n) == [i \in 1..n |-> cell]

RunLengths == {2, 3, 20, 21, 29, 30, 50}

RECURSIVE RunsOf(_, _)
RunsOf(cellset, k) ==
  IF k = 0 THEN {<<>>}
  ELSE RunsOf(cellset, k - 1) \cup
       {Rep(c, n) \o rest : c \in cellset, n \in RunLengths, rest \in RunsOf(cellset, k - 1)}

ObjectCells == {NA} \cup {Some(t) : t \in {"2020-01-01"} \cup OtherTexts}

RawColumns ==
  {[dtype |-> "object", cells |-> cs] : cs \in RunsOf(ObjectCells, MaxRuns) \ {<<>>}}
  \cup {[dtype |-> "float64", cells |-> cs] : cs \in RunsOf({NA, Some(20200101)}, 1) \ {<<>>}}
  \cup {[dtype |-> "datetime64", cells |-> cs] : cs \in RunsOf({NA, Some(1)}, 1) \ {<<>>}}

\* ------------------------------------------------------------ the pass
\* A name the script has not bound yet.
Unset == <<>>

\* What the user may have typed into the search box.
SearchInputs ==
  {<<>>, <<" ">>, <<"b">>, <<"n">>, <<".">>, <<"a", "n">>, <<" ", "b", " ">>}

ColSet(cols) == Range(cols)

InitPass(data) ==
  /\ series = Unset
  /\ is_datetime = FALSE
  /\ df = data
  /\ filtered = <<>>
  /\ pc = "start"
  /\ search = Unset
  /\ cat_selections = Unset
  /\ num_ranges = Unset
  /\ date_range = Unset
  /\ kpi = Unset
  /\ warning = FALSE
  /\ agg = Unset
  /\ summary = Unset
  /\ sum_agg = Unset
  /\ summary_df = Unset
  /\ csv_bytes = Unset

Init == \E data \in Datasets(PassRows) : InitPass(data)

\* Line 89.
Start ==
  /\ pc = "start"
  /\ filtered' = df
  /\ pc' = "cat"
  /\ UNCHANGED <<loader, df, widgets, outputs>>

\* Lines 64-71 and 91-97.
CatFilters ==
  /\ pc = "cat"
  /\ \E cat_filter_cols \in {<<>>, cat_cols} :
       \E sel \in [ColSet(cat_filter_cols) -> SUBSET TextValues] :
         /\ CatOffered(filtered, cat_filter_cols, sel)
         /\ cat_selections' = sel
         /\ filtered' = CatLoop(filtered, cat_filter_cols, sel)
  /\ pc' = "num"
  /\ UNCHANGED <<loader, df, search, num_ranges, date_range, outputs>>

\* Lines 73-80 and 100-111.
NumFilters ==
  /\ pc = "num"
  /\ \E num_filter_cols \in {<<>>, num_cols} :
       \E ranges \in [NumRecorded(filtered, num_filter_cols) -> NumValues \X NumValues] :
         /\ \A c \in DOMAIN ranges :
              /\ ranges[c] \in SliderValues(Min(NonMissing(filtered, c)),
                                            Max(NonMissing(filtered, c)))
              /\ NumCase(filtered, c) = "fixed" =>
                   ranges[c] = <<Min(NonMissing(filtered, c)), Max(NonMissing(filtered, c))>>
         /\ num_ranges' = ranges
         /\ filtered' = NumLoop(filtered, num_filter_cols, ranges)
  /\ pc' = "date"
  /\ UNCHANGED <<loader, df, search, cat_selections, date_range, outputs>>

\* Lines 82-87 and 113-127.
DateFilter ==
  /\ pc = "date"
  /\ \E col \in {"(none)"} \cup Range(datetime_cols) :
       IF col # "(none)" /\ DateDrawn(filtered, col)
       THEN \E picked \in DatePicks(Min(NonMissing(filtered, col)),
                                    Max(NonMissing(filtered, col))) :
              /\ date_range' = IF Len(picked) = 2 THEN picked ELSE Unset
              /\ filtered' = DateStep(filtered, col, picked)
       ELSE /\ date_range' = Unset
            /\ filtered' = filtered
  /\ pc' = "search"
  /\ UNCHANGED <<loader, df, search, cat_selections, num_ranges, outputs>>

\* The search filtering the dataset in place.
SearchFilterInPlace ==
  /\ pc = "search"
  /\ \E text \in SearchInputs :
       /\ search' = Strip(text)
       /\ filtered' = SearchStep(filtered, df, search')
  /\ df' = filtered'
  /\ pc' = "kpi"
  /\ UNCHANGED <<loader, cat_selections, num_ranges, date_range, outputs>>

\* Lines 62 and 129-133.
SearchFilter ==
  /\ pc = "search"
  /\ \E text \in SearchInputs :
       /\ search' = Strip(text)
       /\ filtered' = SearchStep(filtered, df, search')
  /\ pc' = "kpi"
  /\ UNCHANGED <<loader, df, cat_selections, num_ranges, date_range, outputs>>

\* Lines 134-164.
Kpi ==
  /\ pc = "kpi"
  /\ \E metric_col \in Range(num_cols) :
       kpi' = [rows |-> Len(filtered), cols |-> Len(Columns),
               missing_total |-> MissingTotal(filtered),
               stats |-> KpiStats(filtered, metric_col)]
  /\ pc' = "charts"
  /\ UNCHANGED <<loader, df, filtered, widgets, warning, agg, summary, sum_agg, summary_df, csv_bytes>>

\* Lines 171-173: st.stop() ends the pass.
NoData ==
  /\ pc = "charts"
  /\ kpi.rows = 0
  /\ warning' = TRUE
  /\ pc' = "stopped"
  /\ UNCHANGED <<loader, df, filtered, widgets, kpi, agg, summary, sum_agg, summary_df, csv_bytes>>

\* Lines 175-247: of the charts, the grouped bar computes a table.
Charts ==
  /\ pc = "charts"
  /\ kpi.rows # 0
  /\ \E group_col \in Range(cat_cols), metric_col \in Range(num_cols) :
       /\ agg' \in {"sum", "mean", "count"}
       /\ summary' = GroupAgg(filtered, group_col, metric_col, agg')
  /\ pc' = "export"
  /\ UNCHANGED <<loader, df, filtered, widgets, kpi, warning, sum_agg, summary_df, csv_bytes>>

\* Lines 251-272.
Export ==
  /\ pc = "export"
  /\ csv_bytes' = ToCsv(filtered, df)
  /\ \E sum_group \in Range(cat_cols), sum_metric \in Range(num_cols) :
       /\ sum_agg' \in {"sum", "mean", "count", "median"}
       /\ summary_df' = GroupAgg(filtered, sum_group, sum_metric, sum_agg')
  /\ pc' = "done"
  /\ UNCHANGED <<loader, df, filtered, widgets, kpi, warning, agg, summary>>

\* The next interaction runs the script again from the top, on the same
\* cached dataset.
Rerun ==
  /\ pc \in {"done", "stopped"}
  /\ pc' = "start"
  /\ filtered' = <<>>
  /\ search' = Unset
  /\ cat_selections' = Unset
  /\ num_ranges' = Unset
  /\ date_range' = Unset
  /\ kpi' = Unset
  /\ warning' = FALSE
  /\ agg' = Unset
  /\ summary' = Unset
  /\ sum_agg' = Unset
  /\ summary_df' = Unset
  /\ csv_bytes' = Unset
  /\ UNCHANGED <<loader, df>>

Filters == Start \/ CatFilters \/ NumFilters \/ DateFilter \/ SearchFilter

Next == Filters \/ Kpi \/ NoData \/ Charts \/ Export \/ Rerun

Spec == Init /\ [][Next]_vars

\* The filter pipeline alone (lines 89-133), on larger datasets.
FilterInit == \E data \in Datasets(MaxRows) : InitPass(data)

FilterNext == Filters

FilterSpec == FilterInit /\ [][FilterNext]_vars

\* The preparation of one column of the loaded file (lines 48-57).
LoadInit ==
  /\ series \in RawColumns
  /\ is_datetime = FALSE
  /\ pc = "detect"
  /\ df = <<>>
  /\ filtered = <<>>
  /\ search = Unset
  /\ cat_selections = Unset
  /\ num_ranges = Unset
  /\ date_range = Unset
  /\ kpi = Unset
  /\ warning = FALSE
  /\ agg = Unset
  /\ summary = Unset
  /\ sum_agg = Unset
  /\ summary_df = Unset
  /\ csv_bytes = Unset

\* Lines 48-51.
Detect ==
  /\ pc = "detect"
  /\ is_datetime' = is_datetime_col(series)
  /\ pc' = "coerce"
  /\ UNCHANGED <<series, df, filtered, widgets, outputs>>

\* Lines 53-55.
Coerce ==
  /\ pc = "coerce"
  /\ series' = IF is_datetime /\ series.dtype # "datetime64"
                THEN [dtype |-> "datetime64", cells |-> to_datetime_safe(series.cells)]
                ELSE series
  /\ pc' = "prepared"
  /\ UNCHANGED <<is_datetime, df, filtered, widgets, outputs>>

LoadNext == Detect \/ Coerce

LoadSpec == LoadInit /\ [][LoadNext]_vars

\* ------------------------------------------- the pass, seen from a state
\* The columns a widget dictionary holds a value for, in column order.
ColsIn(cols, dict) == SelectSeq(cols, LAMBDA c : c \in DOMAIN dict)

\* The view after the categorical loop, after the numeric loop and after the
\* date block of this pass, recomputed from df and the widget values.
AfterCat == CatLoop(df, ColsIn(cat_cols, cat_selections), cat_selections)

AfterNum == NumLoop(AfterCat, ColsIn(num_cols, num_ranges), num_ranges)

DateCol == IF date_range = Unset THEN "(none)" ELSE datetime_cols[1]

AfterDate == DateStep(AfterNum, DateCol, date_range)

FiltersDone == pc \in {"kpi", "charts", "stopped", "export", "done"}

\* One block of the pipeline on a view, with this pass's widget values.
ApplyStep(step, view) ==
  CASE step = "cat" -> CatLoop(view, ColsIn(cat_cols, cat_selections), cat_selections)
    [] step = "num" -> NumLoop(view, ColsIn(num_cols, num_ranges), num_ranges)
    [] step = "date" -> DateStep(view, DateCol, date_range)
    [] step = "search" -> SearchStep(view, df, search)

RECURSIVE ApplyOrder(_, _)
ApplyOrder(view, order) ==
  IF order = <<>> THEN view ELSE ApplyOrder(ApplyStep(Head(order), view), Tail(order))

ScriptOrder == <<"cat", "num", "date", "search">>

Orders == {o \in [1..4 -> Range(ScriptOrder)] : \A i, j \in 1..4 : o[i] = o[j] => i = j}

RECURSIVE IsSubSeq(_, _)
IsSubSeq(s, t) ==
  IF s = <<>> THEN TRUE
  ELSE IF t = <<>> THEN FALSE
  ELSE IF Head(s) = Head(t) THEN IsSubSeq(Tail(s), Tail(t))
  ELSE IsSubSeq(s, Tail(t))

\* ---------------------------------------------------------------- claims

\* C1: with every offered value of a categorical column selected, the view
\* is the one the empty selection yields (nothing filtered), also when rows
\* of the dataset miss a value in that column.
C1_EmptySelectionIsAll ==
  \A c \in Range(cat_cols) :
    (pc = "num" /\ c \in DOMAIN cat_selections /\ cat_selections[c] = CatOptions(df, c))
      => filtered = CatStep(df, c, {})

\* The row test C2 states for a range: inclusive at both ends, a missing
\* value fails, and the default range [mn, mx] passes every row.
C2_Keeps(cell, r, mn, mx) == r = <<mn, mx>> \/ InRange(cell, r)

\* C2: after the numeric loop the view holds exactly the rows whose value
\* lies in the chosen range, a row with a missing value being excluded
\* unless the range is the default one, which excludes no row.
C2_DefaultRangeKeepsMissing ==
  \A c \in Range(num_cols) :
    (pc = "date" /\ c \in DOMAIN num_ranges)
      => filtered = SelectSeq(AfterCat,
                              LAMBDA row : C2_Keeps(row[c], num_ranges[c],
                                                    Min(NonMissing(AfterCat, c)),
                                                    Max(NonMissing(AfterCat, c))))

\* The term as a plain case-insensitive substring of a text.
C3_Substring(term, text) ==
  \E i \in 1..(Len(text) - Len(term) + 1) :
    \A j \in 1..Len(term) : Lower(term[j]) = Lower(text[i + j - 1])

\* C3: the search keeps a row exactly when the term is a case-insensitive
\* substring of the string form of one of its cells that is not missing,
\* and the empty term keeps every row.
C3_SearchMatchesValuesOnly ==
  pc = "kpi" =>
    filtered = IF search = <<>> THEN AfterDate
               ELSE SelectSeq(AfterDate,
                              LAMBDA row : \E c \in Range(Columns) :
                                /\ ~IsNa(row[c])
                                /\ C3_Substring(search, AsStr(row[c], DType(df, c))))

\* C4: the blocks of the pipeline, each with this pass's widget values,
\* yield the same set of rows in every order.
C4_AnyOrderSameRows ==
  pc = "kpi" => \A order \in Orders : Range(ApplyOrder(df, order)) = Range(filtered)

\* The predicates this pass applied, as tests of one row of df.
C5_Passes(row) ==
  /\ \A c \in DOMAIN cat_selections :
       cat_selections[c] # {} => AsStr(row[c], "object") \in cat_selections[c]
  /\ \A c \in DOMAIN num_ranges :
       NumCase(AfterCat, c) = "slider" => InRange(row[c], num_ranges[c])
  /\ date_range # Unset => InRange(row[DateCol], date_range)
  /\ search # <<>> => SearchHit(row, df, search)

C6_Idempotent ==
  FiltersDone => /\ ApplyOrder(filtered, ScriptOrder) = filtered
                 /\ IsSubSeq(filtered, df)

C6_Witness ==
  /\ pc = "kpi"
  /\ \E c \in DOMAIN num_ranges : NumCase(AfterCat, c) = "slider" /\ Len(AfterNum) < Len(AfterCat)
  /\ search # <<>>
  /\ Len(filtered) >= 2
  /\ Len(filtered) < Len(df)

\* C7: no block of a pass changes the loaded dataset df: every step of the
\* script, from the copy of line 89 to the export, and the rerun leave df as
\* it was.
C7_DatasetUntouched == [][df' = df]_vars

C7_Witness ==
  /\ pc = "done"
  /\ Len(filtered) < Len(df)
  /\ csv_bytes # Unset
  /\ summary_df # Unset

\* The cells of the group-by column in a view, the missing value included.
C8_GroupValues(view, c) == {view[i][c] : i \in 1..Len(view)}

\* A grouped table over the view: one row per distinct value of the group-by
\* column, the missing value being one of them; the counts of a count table
\* add up to the rows of the view.
C8_TableOk(table, how, view, c) ==
  /\ {table[i].key : i \in 1..Len(table)} = C8_GroupValues(view, c)
  /\ Len(table) = Cardinality(C8_GroupValues(view, c))
  /\ how = "count" =>
       /\ SeqSum([i \in 1..Len(table) |-> table[i].value]) = Len(view)
       /\ \A i \in 1..Len(table) :
            table[i].value = Cardinality({j \in 1..Len(view) : view[j][c] = table[i].key})

\* C8: the grouped bar's table and the grouped summary each hold exactly one
\* row per distinct group value of the filtered view, with the rows that
\* miss the group value in one bucket of their own; under count the metric
\* is ignored and the counts sum to the number of filtered rows.
C8_OneRowPerGroup ==
  /\ pc \in {"export", "done"} => C8_TableOk(summary, agg, filtered, cat_cols[1])
  /\ pc = "done" => C8_TableOk(summary_df, sum_agg, filtered, cat_cols[1])

C8_Witness ==
  /\ pc = "done"
  /\ agg = "count" /\ sum_agg = "mean"
  /\ NA \in C8_GroupValues(filtered, cat_cols[1])
  /\ Len(summary) = 2
  /\ \E i \in 1..Len(filtered) : IsNa(filtered[i][num_cols[1]])

\* C9: a pass whose filters leave no row shows the placeholders for the KPI
\* statistics, renders the warning and stops there without reaching the
\* charts or the export; grouping the empty view gives a table of no row
\* under every reducer.
C9_EmptyViewDegrades ==
  (pc \in {"charts", "stopped", "export", "done"} /\ Len(filtered) = 0) =>
    /\ kpi.rows = 0 /\ kpi.stats = Placeholders
    /\ pc \in {"charts", "stopped"}
    /\ pc = "stopped" => warning
    /\ \A how \in {"sum", "mean", "count", "median"} :
         GroupAgg(filtered, cat_cols[1], num_cols[1], how) = <<>>

C9_Witness ==
  /\ pc = "stopped"
  /\ warning
  /\ Len(AfterDate) > 0
  /\ search # <<>>
  /\ Len(filtered) = 0


\* The positions of the first n cells of a column that are not missing.
C10_FirstFilled(cells, n) ==
  {i \in 1..Len(cells) :
     /\ ~IsNa(cells[i])
     /\ Cardinality({j \in 1..i : ~IsNa(cells[j])}) <= n}

\* At least 60% of the first 50 cells that hold a value parse as dates.
C10_EnoughDates(cells) ==
  LET first == C10_FirstFilled(cells, SampleSize)
  IN  /\ first # {}
      /\ 100 * Cardinality({i \in first : ParsesAsDate(Val(cells[i]))})
           >= MinParsedPercent * Cardinality(first)

\* C10: a column that is not of a date type is found temporal only if it is
\* an object column with a value of which, among the first 50 values, at
\* least 60% parse as dates; the coercion of a column found temporal always
\* completes, keeps every cell that parses and makes every other cell
\* missing.
C10_InferredOnlyAboveThreshold ==
  [][/\ (pc = "detect" /\ series.dtype # "datetime64" /\ is_datetime')
          => (series.dtype = "object" /\ C10_EnoughDates(series.cells))
     /\ (pc = "coerce" /\ is_datetime /\ series.dtype # "datetime64")
          => /\ pc' = "prepared"
             /\ Len(series'.cells) = Len(series.cells)
             /\ \A i \in 1..Len(series.cells) :
                  IF ~IsNa(series.cells[i]) /\ ParsesAsDate(Val(series.cells[i]))
                  THEN ~IsNa(series'.cells[i])
                  ELSE IsNa(series'.cells[i])]_vars

C10_Witness ==
  /\ pc = "prepared"
  /\ is_datetime
  /\ Len(series.cells) > SampleSize
  /\ 100 * NotNaCount(series.cells) < MinParsedPercent * Len(series.cells)
====
